---- MODULE Spec2Model ----
(***************************************************************************)
(* Model of gsc_dashboard.py: the script that reads an uploaded Search     *)
(* Console CSV, normalises its header, validates the schema, cleans the    *)
(* numeric columns, filters the rows and derives the KPIs, the alert       *)
(* buckets, the top queries and the opportunity keywords.                  *)
(*                                                                         *)
(* Text (headers, cells, the filter term) is a sequence of one-character   *)
(* strings, so that strip/lower/replace, numeric parsing and pattern       *)
(* matching are computed character by character as the code does.          *)
(* A parsed number is an exact decimal [m |-> mantissa, e |-> decimals]    *)
(* (value m / 10^e, no trailing zero in the fraction); a weighted average  *)
(* is an exact reduced fraction [n |-> numerator, d |-> denominator].      *)
(***************************************************************************)
EXTENDS Integers, Sequences, FiniteSets, TLC

\* ------------------------------------------------------------------ bounds

\* Largest number of data rows in an uploaded file.
MaxRows == 2

\* ------------------------------------------------------------------ text

UpperChars == <<"A","B","C","D","E","F","G","H","I","J","K","L","M",
                "N","O","P","Q","R","S","T","U","V","W","X","Y","Z">>

LowerChars == <<"a","b","c","d","e","f","g","h","i","j","k","l","m",
                "n","o","p","q","r","s","t","u","v","w","x","y","z">>

Digits == <<"0","1","2","3","4","5","6","7","8","9">>

\* str.lower() on one character.
LowerChar(c) ==
  IF \E i \in 1..26 : UpperChars[i] = c
    THEN LowerChars[CHOOSE i \in 1..26 : UpperChars[i] = c]
    ELSE c

\* str.lower()
StrLower(s) == [i \in 1..Len(s) |-> LowerChar(s[i])]

RECURSIVE LStrip(_)
LStrip(s) == IF s # <<>> /\ Head(s) = " " THEN LStrip(Tail(s)) ELSE s

RECURSIVE RStrip(_)
RStrip(s) ==
  IF s # <<>> /\ s[Len(s)] = " " THEN RStrip(SubSeq(s, 1, Len(s) - 1)) ELSE s

\* str.strip()
StrStrip(s) == RStrip(LStrip(s))

\* str.replace(old, new) for a one-character old and a one-character new.
StrReplaceChar(s, old, new) ==
  [i \in 1..Len(s) |-> IF s[i] = old THEN new ELSE s[i]]

\* str.replace(old, "") for a one-character old.
StrRemoveChar(s, old) == SelectSeq(s, LAMBDA c : c # old)

\* ------------------------------------------------------------------ names

S_query == <<"q","u","e","r","y">>
S_page == <<"p","a","g","e">>
S_clicks == <<"c","l","i","c","k","s">>
S_impressions == <<"i","m","p","r","e","s","s","i","o","n","s">>
S_ctr == <<"c","t","r">>
S_position == <<"p","o","s","i","t","i","o","n">>
S_top_queries == <<"t","o","p","_","q","u","e","r","i","e","s">>
S_click_through_rate ==
  <<"c","l","i","c","k","-","t","h","r","o","u","g","h","_","r","a","t","e">>
S_avg_position == <<"a","v","g","_","p","o","s","i","t","i","o","n">>
S_impressio == <<"i","m","p","r","e","s","s","i","o">>

\* ------------------------------------------------------------------ schema

\* NormalizeColumn with a fault: the header is trimmed and its spaces are
\* replaced, but it is not lowercased.
NormalizeColumnNoLower(col) == StrReplaceChar(StrStrip(col), " ", "_")

\* col.strip().lower().replace(" ", "_")
NormalizeColumn(col) == StrReplaceChar(StrLower(StrStrip(col)), " ", "_")

\* The rename table with four aliases (top_queries, click-through_rate,
\* avg_position, impressio), which the code does not have.
RenameColumnAliasTable(col) ==
  CASE col = S_top_queries -> S_query
    [] col = S_click_through_rate -> S_ctr
    [] col = S_avg_position -> S_position
    [] col = S_impressio -> S_impressions
    [] OTHER -> col

\* df.rename(columns={"top_queries": "query"})
RenameColumn(col) == IF col = S_top_queries THEN S_query ELSE col

\* The columns of df after normalisation and renaming.
NormalizedColumns(header) ==
  [i \in 1..Len(header) |-> RenameColumn(NormalizeColumn(header[i]))]

required_cols == <<S_query, S_clicks, S_impressions, S_ctr, S_position>>

\* col in df.columns
HasColumn(cols, col) == \E i \in 1..Len(cols) : cols[i] = col

\* MissingColumns with a fault: only the first missing column is reported.
MissingColumnsFirstOnly(cols) ==
  LET all == SelectSeq(required_cols, LAMBDA c : ~HasColumn(cols, c))
  IN  IF all = <<>> THEN <<>> ELSE <<Head(all)>>

\* [col for col in required_cols if col not in df.columns]
MissingColumns(cols) == SelectSeq(required_cols, LAMBDA c : ~HasColumn(cols, c))

\* The position of a column in df.columns (the first one of that name).
ColIndex(cols, col) ==
  CHOOSE i \in 1..Len(cols) :
    cols[i] = col /\ \A j \in 1..(i - 1) : cols[j] # col

\* ------------------------------------------------------------------ numbers

\* The missing-value marker of a numeric column (NaN).
NaN == [m |-> 0, e |-> -1]

IsNaN(x) == x.e < 0

\* The missing-value marker of a text cell, as read_csv leaves it.
NA == <<"<NA>">>

RECURSIVE Pow10(_)
Pow10(k) == IF k <= 0 THEN 1 ELSE 10 * Pow10(k - 1)

\* The canonical form of a decimal: no trailing zero in the fraction.
RECURSIVE DecNorm(_)
DecNorm(x) ==
  IF x.e > 0 /\ x.m % 10 = 0
    THEN DecNorm([m |-> x.m \div 10, e |-> x.e - 1])
    ELSE x

Dec(m, e) == DecNorm([m |-> m, e |-> e])

\* The integer n as a decimal.
DecOfInt(n) == [m |-> n, e |-> 0]

\* Comparisons of pandas: any comparison with NaN is False.
DecLt(a, b) == ~IsNaN(a) /\ ~IsNaN(b) /\ a.m * Pow10(b.e) < b.m * Pow10(a.e)
DecLe(a, b) == ~IsNaN(a) /\ ~IsNaN(b) /\ a.m * Pow10(b.e) <= b.m * Pow10(a.e)
DecGt(a, b) == DecLt(b, a)
DecGe(a, b) == DecLe(b, a)

DecAdd(a, b) ==
  LET e == IF a.e > b.e THEN a.e ELSE b.e
  IN  DecNorm([m |-> a.m * Pow10(e - a.e) + b.m * Pow10(e - b.e), e |-> e])

\* Series * Series, element by element: NaN if either factor is NaN.
DecMul(a, b) ==
  IF IsNaN(a) \/ IsNaN(b) THEN NaN ELSE DecNorm([m |-> a.m * b.m, e |-> a.e + b.e])

\* int(x) of a number that is not NaN: truncation.
DecInt(x) == x.m \div Pow10(x.e)

\* Series.sum(): NaN is skipped, the empty sum is 0.
RECURSIVE SeriesSum(_)
SeriesSum(xs) ==
  IF xs = <<>> THEN DecOfInt(0)
  ELSE IF IsNaN(Head(xs)) THEN SeriesSum(Tail(xs))
  ELSE DecAdd(Head(xs), SeriesSum(Tail(xs)))

\* Series.max(): NaN is skipped, NaN if nothing is left.
RECURSIVE SeriesMax(_)
SeriesMax(xs) ==
  IF xs = <<>> THEN NaN
  ELSE LET rest == SeriesMax(Tail(xs))
       IN  IF IsNaN(Head(xs)) THEN rest
           ELSE IF IsNaN(rest) \/ DecGt(Head(xs), rest) THEN Head(xs)
           ELSE rest

IsDigit(c) == \E i \in 1..10 : Digits[i] = c

DigitVal(c) == (CHOOSE i \in 1..10 : Digits[i] = c) - 1

RECURSIVE DigitsToInt(_)
DigitsToInt(ds) ==
  IF ds = <<>> THEN 0
  ELSE 10 * DigitsToInt(SubSeq(ds, 1, Len(ds) - 1)) + DigitVal(ds[Len(ds)])

\* pd.to_numeric(text, errors="coerce") on unsigned decimal text: digits with
\* at most one decimal point parse to their value, anything else (the text
\* "nan" included) is coerced to NaN.
ToNumeric(s) ==
  LET dots == SelectSeq(s, LAMBDA c : c = ".")
      digs == SelectSeq(s, LAMBDA c : c # ".")
  IN  IF /\ digs # <<>>
         /\ Len(dots) <= 1
         /\ \A i \in 1..Len(digs) : IsDigit(digs[i])
        THEN LET dot == IF dots = <<>> THEN Len(s)
                        ELSE CHOOSE i \in 1..Len(s) : s[i] = "."
             IN  Dec(DigitsToInt(digs), Len(s) - dot)
        ELSE NaN

\* The values read_csv takes for missing (those the model's files use).
NaValues == { <<>>, <<"N","/","A">> }

\* pd.read_csv on one cell: a missing-value spelling becomes the marker.
ReadCell(text) == IF text \in NaValues THEN NA ELSE text

\* Series.astype(str) on one cell: the marker becomes the text "nan".
AsTypeStr(cell) == IF cell = NA THEN <<"n","a","n">> ELSE cell

\* Lines 55-56 on one cell of clicks, impressions or position.
CleanNumber(cell) == ToNumeric(StrRemoveChar(AsTypeStr(cell), ","))

\* Lines 58-59 on one cell of ctr.
CleanCtrCell(cell) ==
  ToNumeric(StrRemoveChar(StrRemoveChar(AsTypeStr(cell), "%"), ","))

RECURSIVE Gcd(_, _)
Gcd(a, b) == IF b = 0 THEN a ELSE Gcd(b, a % b)

\* The literal 0 of the zero-division guard.
Zero == [n |-> 0, d |-> 1]

\* num / den for decimals num >= 0 and den > 0, as an exact reduced fraction.
Quotient(num, den) ==
  LET n == num.m * Pow10(den.e)
      d == den.m * Pow10(num.e)
      g == Gcd(n, d)
  IN  [n |-> n \div g, d |-> d \div g]

\* ------------------------------------------------------------------ files

\* Header rows of uploaded files.  The first is the export of
\* Performance > Queries; the others vary the spelling, use the aliases of the
\* rename table, a page subject, or leave required columns out.
H_export ==
  << <<"T","o","p"," ","q","u","e","r","i","e","s">>,
     <<"C","l","i","c","k","s">>,
     <<"I","m","p","r","e","s","s","i","o","n","s">>,
     <<"C","T","R">>,
     <<"P","o","s","i","t","i","o","n">> >>

H_spaced ==
  << <<" ","Q","u","e","r","y"," ">>,
     <<"c","l","i","c","k","s">>,
     <<" ","I","M","P","R","E","S","S","I","O","N","S">>,
     <<"c","t","r"," ">>,
     <<"p","o","s","i","t","i","o","n">> >>

H_page ==
  << <<"P","a","g","e">>,
     <<"C","l","i","c","k","s">>,
     <<"I","m","p","r","e","s","s","i","o","n","s">>,
     <<"C","T","R">>,
     <<"P","o","s","i","t","i","o","n">> >>

H_aliases ==
  << <<"T","o","p"," ","q","u","e","r","i","e","s">>,
     <<"C","l","i","c","k","s">>,
     <<"I","m","p","r","e","s","s","i","o">>,
     <<"C","l","i","c","k","-","T","h","r","o","u","g","h"," ","R","a","t","e">>,
     <<"A","v","g"," ","P","o","s","i","t","i","o","n">> >>

H_no_position ==
  << <<"Q","u","e","r","y">>,
     <<"C","l","i","c","k","s">>,
     <<"I","m","p","r","e","s","s","i","o","n","s">>,
     <<"C","T","R">>,
     <<"R","a","n","k">> >>

H_no_subject ==
  << <<"K","e","y","w","o","r","d">>,
     <<"C","l","i","c","k","s">>,
     <<"I","m","p","r","e","s","s","i","o","n","s">>,
     <<"C","T","R">>,
     <<"R","a","n","k">> >>

Headers == {H_export, H_spaced, H_page, H_aliases, H_no_position, H_no_subject}

T_buy_shoes == <<"b","u","y"," ","s","h","o","e","s">>
T_cheap_shoes == <<"c","h","e","a","p"," ","s","h","o","e","s">>
T_Buy_Boots == <<"B","u","y"," ","B","o","o","t","s">>
T_red_hats == <<"r","e","d"," ","h","a","t","s">>

\* Data rows of uploaded files, cell by cell in the order of the header:
\* subject, clicks, impressions, ctr, position.
R_buy == <<T_buy_shoes, <<"1","2","0">>, <<"3","0","0","0">>, <<"2",".","1">>,
           <<"7",".","4">> >>

R_cheap == <<T_cheap_shoes, <<"5">>, <<"1","5","0","0">>, <<"0",".","3">>,
             <<"9",".","0">> >>

R_buy_fraction == <<T_buy_shoes, <<"1","2","0">>, <<"3","0","0","0">>,
                    <<"0",".","0","2","1">>, <<"7",".","4">> >>

R_cheap_fraction == <<T_cheap_shoes, <<"5">>, <<"1","5","0","0">>,
                      <<"0",".","0","0","3">>, <<"9",".","0">> >>

\* ctr does not parse, the numbers carry thousands separators.
R_boots == <<T_Buy_Boots, <<"1",",","2","3","4">>, <<"1","0",",","0","0","0">>,
             <<"N","/","A">>, <<"3",".","5">> >>

\* impressions does not parse, the subject is empty.
R_no_impressions == << <<>>, <<"7">>, <<"a","b","c">>, <<"1","2","%">>,
                       <<"1","2">> >>

\* high ctr at a low rank, impressions on the slider's default.
R_hats == <<T_red_hats, <<"1","2","0">>, <<"1","0","0">>, <<"1","2","%">>,
            <<"1","2">> >>

\* none of the four numeric cells parses.
R_junk == <<T_red_hats, <<"N","/","A">>, <<>>, <<"a","b","c">>,
            <<"1",".","2",".","3">> >>

\* clicks and position do not parse, the subject is empty.
R_no_position == << <<>>, <<"N","/","A">>, <<"2",",","0","0","0">>,
                    <<"0",".","5","%">>, <<"-">> >>

R_zero == <<T_cheap_shoes, <<"0">>, <<"0">>, <<"0">>, <<"1">> >>

\* every value on a threshold of a bucket.
R_edge == <<T_Buy_Boots, <<"1","0">>, <<"1","0","0","0">>, <<"1",".","0">>,
            <<"5">> >>

RowCatalog ==
  {R_buy, R_cheap, R_buy_fraction, R_cheap_fraction, R_boots, R_no_impressions,
   R_hats, R_junk, R_no_position, R_zero, R_edge}

\* The data rows of a file: up to MaxRows rows of the catalog, in any order.
Tables == UNION {[1..n -> RowCatalog] : n \in 0..MaxRows}

\* The terms typed into "Filter by Query".
Terms == { <<>>, <<"s","h","o","e","s">>, <<"B","U","Y">>, <<".">> }

\* The values the "Minimum Impressions" slider is set to (100 is its default).
MinImprChoices == {0, 100}

NoFile == [header |-> <<>>, rows |-> <<>>]

\* The value of an output that has not been computed.
NoTotal == [m |-> 0, e |-> -2]
NoAverage == [n |-> -1, d |-> 1]

\* ------------------------------------------------------------------ pipeline

VARIABLES
  pc,                \* the line the script has reached
  error,             \* the exception that ended the run, "" if none
  uploaded_file,     \* the uploaded CSV: its header row and its data rows
  columns,           \* df.columns
  missing,           \* the missing required columns
  df,                \* the data frame: a sequence of rows
  min_impr,          \* the slider's value
  keyword_filter,    \* the text input's value
  total_clicks, total_impressions, avg_ctr, avg_position,
  critical_drops, warnings, wins,
  top_queries,       \* the table shown under "Top Queries by Clicks"
  opportunities

filters == <<min_impr, keyword_filter>>
kpis == <<total_clicks, total_impressions, avg_ctr, avg_position>>
alerts == <<critical_drops, warnings, wins>>
vars == <<pc, error, uploaded_file, columns, missing, df, filters, kpis, alerts,
          top_queries, opportunities>>

\* Column `name` of df, as a sequence.
Column(table, name) ==
  [i \in 1..Len(table) |->
     CASE name = "clicks" -> table[i].clicks
       [] name = "impressions" -> table[i].impressions
       [] name = "ctr" -> table[i].ctr
       [] name = "position" -> table[i].position]

\* pd.read_csv and the column lookups by name: row i of the file with the
\* cell of each required column, idx being the row's index label.
ReadRows(file, cols) ==
  [i \in 1..Len(file.rows) |->
     [idx |-> i,
      query |-> ReadCell(file.rows[i][ColIndex(cols, S_query)]),
      clicks |-> ReadCell(file.rows[i][ColIndex(cols, S_clicks)]),
      impressions |-> ReadCell(file.rows[i][ColIndex(cols, S_impressions)]),
      ctr |-> ReadCell(file.rows[i][ColIndex(cols, S_ctr)]),
      position |-> ReadCell(file.rows[i][ColIndex(cols, S_position)])]]

\* CleanCtr with a unit rescaling the code does not have: the column is
\* multiplied by 100 when its maximum is at most 1.
CleanCtrRescaled(cells) ==
  LET parsed == [i \in 1..Len(cells) |-> CleanCtrCell(cells[i])]
      mx == SeriesMax(parsed)
  IN  IF DecLe(mx, DecOfInt(1))
        THEN [i \in 1..Len(cells) |-> DecMul(parsed[i], DecOfInt(100))]
        ELSE parsed

\* Lines 58-59: the ctr column, cleaned.
CleanCtr(cells) == [i \in 1..Len(cells) |-> CleanCtrCell(cells[i])]

AllFourMissing(row) ==
  IsNaN(row.clicks) /\ IsNaN(row.impressions) /\ IsNaN(row.ctr) /\ IsNaN(row.position)

\* df.dropna(subset=[clicks, impressions, ctr, position], how="all")
DropNa(table) == SelectSeq(table, LAMBDA r : ~AllFourMissing(r))

\* Lines 54-61: the numeric columns cleaned, the all-missing rows dropped.
CleanTable(table) ==
  LET ctrs == CleanCtr([i \in 1..Len(table) |-> table[i].ctr])
  IN  DropNa([i \in 1..Len(table) |->
                [idx |-> table[i].idx,
                 query |-> table[i].query,
                 clicks |-> CleanNumber(table[i].clicks),
                 impressions |-> CleanNumber(table[i].impressions),
                 ctr |-> ctrs[i],
                 position |-> CleanNumber(table[i].position)]])

\* re.search(pat, s, re.IGNORECASE) for a pattern of literal characters and
\* the wildcard ".", which matches any character.
ReSearch(pat, s) ==
  \E i \in 0..(Len(s) - Len(pat)) :
    \A j \in 1..Len(pat) :
      pat[j] = "." \/ LowerChar(pat[j]) = LowerChar(s[i + j])

\* Series.str.contains(pat, case=False, na=False) on one cell.
StrContains(cell, pat) == IF cell = NA THEN FALSE ELSE ReSearch(pat, cell)

\* The maximum the slider accepts: Streamlit widens the range to hold the
\* default value 100.
SliderMax(mx) == IF DecInt(mx) > 100 THEN DecInt(mx) ELSE 100

\* The query column holds text (dtype object): the file has no row, or some
\* subject cell is not missing.  The .str accessor exists only then.
QueryIsText(file, cols) ==
  \/ file.rows = <<>>
  \/ \E i \in 1..Len(file.rows) :
       ReadCell(file.rows[i][ColIndex(cols, S_query)]) # NA

\* Lines 67-69: the rows that pass both filters, in their order.
FilterRows(table, mi, kw) ==
  LET byImpr == SelectSeq(table, LAMBDA r : DecGe(r.impressions, DecOfInt(mi)))
  IN  IF kw # <<>>
        THEN SelectSeq(byImpr, LAMBDA r : StrContains(r.query, kw))
        ELSE byImpr

\* WeightedAverage with a fault: no zero-division guard; the division by a
\* zero total yields no number.
WeightedAverageUnguarded(table, name) ==
  LET total == SeriesSum(Column(table, "impressions"))
      prods == [i \in 1..Len(table) |->
                  DecMul(Column(table, name)[i], table[i].impressions)]
  IN  IF total.m # 0 THEN Quotient(SeriesSum(prods), total)
      ELSE [n |-> SeriesSum(prods).m, d |-> 0]

\* Lines 84-85: (df[name] * df["impressions"]).sum() / total_impressions
\* if total_impressions else 0
WeightedAverage(table, name) ==
  LET total == SeriesSum(Column(table, "impressions"))
      prods == [i \in 1..Len(table) |->
                  DecMul(Column(table, name)[i], table[i].impressions)]
  IN  IF total.m # 0 THEN Quotient(SeriesSum(prods), total) ELSE Zero

\* IsCritical with a fault: the impressions clause is left out.
IsCriticalCtrOnly(r) == DecLt(r.ctr, DecOfInt(1))

\* Line 101
IsCritical(r) == DecLt(r.ctr, DecOfInt(1)) /\ DecGt(r.impressions, DecOfInt(1000))

\* Line 102
IsWarning(r) == DecGt(r.impressions, DecOfInt(1000)) /\ DecLt(r.clicks, DecOfInt(10))

\* Line 103
IsWin(r) == DecGt(r.ctr, DecOfInt(10)) /\ DecGt(r.position, DecOfInt(10))

\* Line 159
IsOpportunity(r) ==
  /\ DecGe(r.position, DecOfInt(5))
  /\ DecLe(r.position, DecOfInt(15))
  /\ DecLt(r.ctr, DecOfInt(5))

\* The number of rows of "Top Queries by Clicks".
TopN == 10

\* DataFrame.head(n)
HeadRows(table, n) == SubSeq(table, 1, IF Len(table) < n THEN Len(table) ELSE n)

\* The results df.sort_values(by="clicks", ascending=False) can give: the
\* rearrangements of the table with the rows that have clicks first, in
\* non-increasing order of clicks, and the rows without clicks last, in their
\* order in the table.  The default sort kind is quicksort, which is not
\* stable: rows of equal clicks come out in any order.
SortValuesByClicksDesc(table) ==
  LET none == SelectSeq(table, LAMBDA r : IsNaN(r.clicks))
      k == Len(table) - Len(none)
  IN  { out \in { [i \in 1..Len(table) |-> table[p[i]]] :
                    p \in Permutations(1..Len(table)) } :
          /\ \A i \in 1..k : ~IsNaN(out[i].clicks)
          /\ SubSeq(out, k + 1, Len(out)) = none
          /\ \A i \in 1..(k - 1) : DecGe(out[i].clicks, out[i + 1].clicks) }

Init ==
  /\ pc = "idle"
  /\ error = ""
  /\ uploaded_file = NoFile
  /\ columns = <<>>
  /\ missing = <<>>
  /\ df = <<>>
  /\ min_impr = 100
  /\ keyword_filter = <<>>
  /\ total_clicks = NoTotal
  /\ total_impressions = NoTotal
  /\ avg_ctr = NoAverage
  /\ avg_position = NoAverage
  /\ critical_drops = <<>>
  /\ warnings = <<>>
  /\ wins = <<>>
  /\ top_queries = <<>>
  /\ opportunities = <<>>

\* Line 36: a CSV file is uploaded.
Upload ==
  /\ pc = "idle"
  /\ \E h \in Headers, rows \in Tables :
       uploaded_file' = [header |-> h, rows |-> rows]
  /\ pc' = "read"
  /\ UNCHANGED <<error, columns, missing, df, filters, kpis, alerts,
                 top_queries, opportunities>>

\* Lines 40-51: the header is normalised and the schema validated; with a
\* required column missing the script reports the list and stops.
NormalizeColumns ==
  /\ pc = "read"
  /\ columns' = NormalizedColumns(uploaded_file.header)
  /\ missing' = MissingColumns(columns')
  /\ IF missing' # <<>>
       THEN pc' = "stopped" /\ df' = df
       ELSE pc' = "clean" /\ df' = ReadRows(uploaded_file, columns')
  /\ UNCHANGED <<error, uploaded_file, filters, kpis, alerts, top_queries,
                 opportunities>>

\* Lines 54-61
CleanNumeric ==
  /\ pc = "clean"
  /\ df' = CleanTable(df)
  /\ pc' = "filter"
  /\ UNCHANGED <<error, uploaded_file, columns, missing, filters, kpis, alerts,
                 top_queries, opportunities>>

\* Line 65 with no impressions value in df: the maximum is NaN and int(NaN)
\* raises ValueError.
SliderError ==
  /\ pc = "filter"
  /\ IsNaN(SeriesMax(Column(df, "impressions")))
  /\ pc' = "error"
  /\ error' = "ValueError"
  /\ UNCHANGED <<uploaded_file, columns, missing, df, filters, kpis, alerts,
                 top_queries, opportunities>>

\* Line 69 on a query column that holds no text: the .str accessor raises
\* AttributeError.
AccessorError ==
  /\ pc = "filter"
  /\ ~IsNaN(SeriesMax(Column(df, "impressions")))
  /\ ~QueryIsText(uploaded_file, columns)
  /\ \E mi \in MinImprChoices, kw \in Terms \ {<<>>} :
       /\ mi <= SliderMax(SeriesMax(Column(df, "impressions")))
       /\ min_impr' = mi
       /\ keyword_filter' = kw
       /\ df' = SelectSeq(df, LAMBDA r : DecGe(r.impressions, DecOfInt(mi)))
  /\ pc' = "error"
  /\ error' = "AttributeError"
  /\ UNCHANGED <<uploaded_file, columns, missing, kpis, alerts, top_queries,
                 opportunities>>

\* Lines 64-69: the slider and the text input are read, df is filtered.
FilterData ==
  /\ pc = "filter"
  /\ ~IsNaN(SeriesMax(Column(df, "impressions")))
  /\ \E mi \in MinImprChoices, kw \in Terms :
       /\ mi <= SliderMax(SeriesMax(Column(df, "impressions")))
       /\ kw # <<>> => QueryIsText(uploaded_file, columns)
       /\ min_impr' = mi
       /\ keyword_filter' = kw
       /\ df' = FilterRows(df, mi, kw)
  /\ pc' = "metrics"
  /\ UNCHANGED <<error, uploaded_file, columns, missing, kpis, alerts, top_queries,
                 opportunities>>

\* Lines 82-85
WeightedMetrics ==
  /\ pc = "metrics"
  /\ total_clicks' = SeriesSum(Column(df, "clicks"))
  /\ total_impressions' = SeriesSum(Column(df, "impressions"))
  /\ avg_ctr' = WeightedAverage(df, "ctr")
  /\ avg_position' = WeightedAverage(df, "position")
  /\ pc' = "alerts"
  /\ UNCHANGED <<error, uploaded_file, columns, missing, df, filters, alerts,
                 top_queries, opportunities>>

\* Lines 101-103
DefineAlerts ==
  /\ pc = "alerts"
  /\ critical_drops' = SelectSeq(df, IsCritical)
  /\ warnings' = SelectSeq(df, IsWarning)
  /\ wins' = SelectSeq(df, IsWin)
  /\ pc' = "top"
  /\ UNCHANGED <<error, uploaded_file, columns, missing, df, filters, kpis,
                 top_queries, opportunities>>

\* Lines 152-155
TopQueries ==
  /\ pc = "top"
  /\ \E out \in SortValuesByClicksDesc(df) : top_queries' = HeadRows(out, TopN)
  /\ pc' = "opportunities"
  /\ UNCHANGED <<error, uploaded_file, columns, missing, df, filters, kpis, alerts,
                 opportunities>>

\* Line 159
Opportunities ==
  /\ pc = "opportunities"
  /\ opportunities' = SelectSeq(df, IsOpportunity)
  /\ pc' = "done"
  /\ UNCHANGED <<error, uploaded_file, columns, missing, df, filters, kpis, alerts,
                 top_queries>>

Next ==
  \/ Upload
  \/ NormalizeColumns
  \/ CleanNumeric
  \/ SliderError
  \/ AccessorError
  \/ FilterData
  \/ WeightedMetrics
  \/ DefineAlerts
  \/ TopQueries
  \/ Opportunities

Spec == Init /\ [][Next]_vars

\* ------------------------------------------------------------------ claims

\* The schema has been validated.
Validated == pc \notin {"idle", "read"}

\* No KPI, alert, top-N or opportunity output has been produced.
NoOutput ==
  /\ total_clicks = NoTotal /\ total_impressions = NoTotal
  /\ avg_ctr = NoAverage /\ avg_position = NoAverage
  /\ critical_drops = <<>> /\ warnings = <<>> /\ wins = <<>>
  /\ top_queries = <<>> /\ opportunities = <<>>

FourNumeric == {S_clicks, S_impressions, S_ctr, S_position}

\* The required names that are not among the normalised columns.
Absent(names) == {f \in names : \A i \in 1..Len(columns) : columns[i] # f}

\* C1, as stated: validation fails if and only if neither `query` nor `page`
\* is present or one of clicks, impressions, ctr, position is absent.
C1_AsStated ==
  Validated =>
    (pc = "stopped" <=>
       \/ Absent({S_query, S_page}) = {S_query, S_page}
       \/ Absent(FourNumeric) # {})

\* C1, amended: validation fails if and only if one of query, clicks,
\* impressions, ctr, position is absent after normalisation (a `page` column
\* does not stand in for `query`); when it fails the reported list names
\* exactly the absent ones, each once, and no output is produced; when it
\* does not fail nothing is reported and processing continues.
C1_SchemaValidation ==
  Validated =>
    LET absent == Absent({S_query} \cup FourNumeric)
    IN  /\ pc = "stopped" <=> absent # {}
        /\ {missing[i] : i \in 1..Len(missing)} = absent
        /\ Len(missing) = Cardinality(absent)
        /\ pc = "stopped" => NoOutput /\ df = <<>>

\* C1's case: a header whose subject column is `page` has been rejected, the
\* report naming `query` alone.
C1_Witness ==
  /\ pc = "stopped"
  /\ uploaded_file.header = H_page
  /\ missing = <<S_query>>

IsUpper(c) == \E i \in 1..26 : UpperChars[i] = c

\* C2, as stated: a file in which every required field appears under its
\* canonical name or one of the four aliases passes schema validation.
C2_AsStated ==
  Validated =>
    ((\A f \in {S_query} \cup FourNumeric :
        \E i \in 1..Len(uploaded_file.header) :
          RenameColumnAliasTable(NormalizeColumn(uploaded_file.header[i])) = f)
     => pc # "stopped")

\* C2, amended: every header is trimmed, lowercased and has its spaces
\* replaced by underscores, and then only `top_queries` is renamed, to
\* `query`; `click-through_rate`, `avg_position` and `impressio` keep their
\* names, so a file that uses one of these three fails schema validation
\* with the canonical field reported missing.  (Stated of the step that sets
\* the columns; no later step writes them.)
C2_HeaderNormalisation ==
  pc \in {"stopped", "clean"} =>
    /\ Len(columns) = Len(uploaded_file.header)
    /\ \A i \in 1..Len(columns) :
         LET raw == uploaded_file.header[i]
             col == columns[i]
             lead == Len(raw) - Len(LStrip(raw))
         IN  /\ col # S_top_queries
             /\ \A k \in 1..Len(col) : ~IsUpper(col[k]) /\ col[k] # " "
             /\ col # S_query =>
                  /\ col # <<>> => col[1] # "_" /\ col[Len(col)] # "_"
                  /\ \A k \in 1..Len(col) :
                       col[k] = (IF raw[lead + k] = " " THEN "_"
                                 ELSE LowerChar(raw[lead + k]))
    /\ uploaded_file.header \in {H_export, H_spaced} =>
         columns = <<S_query, S_clicks, S_impressions, S_ctr, S_position>>
    /\ uploaded_file.header = H_aliases =>
         /\ columns = <<S_query, S_clicks, S_impressio, S_click_through_rate,
                        S_avg_position>>
         /\ pc = "stopped"
         /\ missing = <<S_impressions, S_ctr, S_position>>

\* C2's case: the file with the alias headers has been normalised; only its
\* `Top queries` column was renamed and validation failed.
C2_Witness ==
  /\ pc = "stopped"
  /\ uploaded_file.header = H_aliases
  /\ columns[1] = S_query
  /\ columns[5] = S_avg_position

\* The ctr cell of file row i, parsed.
ParsedCtr(i) ==
  CleanCtrCell(ReadCell(uploaded_file.rows[i][ColIndex(columns, S_ctr)]))

\* C3, as stated: after coercion the ctr column is multiplied by 100 when
\* the maximum of its parsed values is at most 1, and is unchanged otherwise.
C3_AsStated ==
  pc = "filter" =>
    LET mx == SeriesMax([i \in 1..Len(uploaded_file.rows) |-> ParsedCtr(i)])
    IN  \A k \in 1..Len(df) :
          df[k].ctr = IF DecLe(mx, DecOfInt(1))
                        THEN DecMul(ParsedCtr(df[k].idx), DecOfInt(100))
                        ELSE ParsedCtr(df[k].idx)

PercentFile == <<R_buy, R_cheap>>
FractionFile == <<R_buy_fraction, R_cheap_fraction>>

\* C3, amended: the ctr column is never rescaled: every ctr value is the
\* number parsed from its cell with `%` and `,` removed, whatever the maximum
\* of the column; so the fraction-encoded column [0.021, 0.003] stays
\* [0.021, 0.003] and gives an average ctr of 0.015 and two Critical rows,
\* where the percentage-encoded column [2.1, 0.3] gives 1.5 and one.
C3_CtrNotRescaled ==
  /\ pc \notin {"idle", "read", "stopped", "clean"} =>
       \A k \in 1..Len(df) : df[k].ctr = ParsedCtr(df[k].idx)
  /\ pc = "filter" /\ uploaded_file.rows = FractionFile =>
       Column(df, "ctr") = <<[m |-> 21, e |-> 3], [m |-> 3, e |-> 3]>>
  /\ pc = "filter" /\ uploaded_file.rows = PercentFile =>
       Column(df, "ctr") = <<[m |-> 21, e |-> 1], [m |-> 3, e |-> 1]>>
  /\ pc = "done" /\ min_impr = 100 /\ keyword_filter = <<>> =>
       /\ uploaded_file.rows = FractionFile =>
            avg_ctr = [n |-> 3, d |-> 200] /\ Len(critical_drops) = 2
       /\ uploaded_file.rows = PercentFile =>
            avg_ctr = [n |-> 3, d |-> 2] /\ Len(critical_drops) = 1

\* C3's case: the fraction-encoded file has run to the end.
C3_Witness ==
  /\ pc = "done"
  /\ uploaded_file.rows = FractionFile
  /\ min_impr = 100
  /\ keyword_filter = <<>>
  /\ Len(critical_drops) = 2

\* The table after coercion, before the filters: recomputed from the file.
Coerced == CleanTable(ReadRows(uploaded_file, columns))

\* The outputs of lines 82-85 have been computed.
MetricsDone == pc \in {"alerts", "top", "opportunities", "done"}

\* C4, as stated: with a valid schema and data rows, no set of unparseable
\* numeric cells ends the run in an error: the run is never ended by the
\* ValueError of the numeric pipeline.
C4_AsStated == uploaded_file.rows # <<>> => error # "ValueError"

\* The four numeric cells of file row i, coerced one by one.
CoercedCells(i) ==
  LET cell(name) == ReadCell(uploaded_file.rows[i][ColIndex(columns, name)])
  IN  [clicks |-> CleanNumber(cell(S_clicks)),
       impressions |-> CleanNumber(cell(S_impressions)),
       ctr |-> CleanCtrCell(cell(S_ctr)),
       position |-> CleanNumber(cell(S_position))]

\* C5, as stated: with min_impressions = 0 and an empty term, file row i is
\* in the table the KPIs are computed on if and only if not all four of its
\* numeric cells are missing after coercion.
C5_AsStated ==
  pc = "metrics" /\ min_impr = 0 /\ keyword_filter = <<>> =>
    \A i \in 1..Len(uploaded_file.rows) :
      (\E k \in 1..Len(df) : df[k].idx = i) <=> ~AllFourMissing(CoercedCells(i))

\* s contains t as a substring, letter case ignored.
ContainsIgnoreCase(s, t) ==
  \E i \in 0..(Len(s) - Len(t)) :
    \A j \in 1..Len(t) : LowerChar(s[i + j]) = LowerChar(t[j])

\* C6, as stated: the filtered table is exactly the rows of the coerced
\* table, in their order, with impressions >= min_impressions and (the term
\* empty or the subject, if present, containing the term, case ignored).
C6_AsStated ==
  pc = "metrics" =>
    df = SelectSeq(Coerced,
           LAMBDA r :
             /\ DecGe(r.impressions, DecOfInt(min_impr))
             /\ \/ keyword_filter = <<>>
                \/ r.query # NA /\ ContainsIgnoreCase(r.query, keyword_filter))

\* C7: whenever the sum of impressions over the filtered table is 0 (the
\* empty table included) avg_ctr and avg_position are exactly 0; otherwise
\* they are the quotients of the sums of ctr * impressions and of
\* position * impressions by the sum of impressions.
C7_WeightedKpis ==
  MetricsDone =>
    LET imp == SeriesSum(Column(df, "impressions"))
        prod(name) ==
          SeriesSum([i \in 1..Len(df) |->
                       DecMul(Column(df, name)[i], df[i].impressions)])
        IsQuotient(avg, num) ==
          /\ avg.d > 0
          /\ avg.n * imp.m * Pow10(num.e) = avg.d * num.m * Pow10(imp.e)
    IN  /\ total_impressions = imp
        /\ IF imp.m = 0
             THEN avg_ctr = Zero /\ avg_position = Zero
             ELSE /\ IsQuotient(avg_ctr, prod("ctr"))
                  /\ IsQuotient(avg_position, prod("position"))

\* C7's case: the KPIs have been computed over rows whose impressions sum
\* to 0, and both averages are 0.
C7_Witness ==
  /\ pc = "done"
  /\ df # <<>>
  /\ total_impressions = DecOfInt(0)
  /\ avg_ctr = Zero
  /\ avg_position = Zero

\* The table without its row k.
Without(table, k) == SubSeq(table, 1, k - 1) \o SubSeq(table, k + 1, Len(table))

\* C8, as stated: a row with ctr missing and clicks and impressions present
\* counts in total_clicks and total_impressions, and avg_ctr is what it is
\* over the table without that row; likewise avg_position for a row with
\* position missing.
C8_AsStated ==
  MetricsDone =>
    \A k \in 1..Len(df) :
      ~IsNaN(df[k].clicks) /\ ~IsNaN(df[k].impressions) =>
        /\ IsNaN(df[k].ctr) =>
             /\ total_clicks = DecAdd(df[k].clicks,
                                 SeriesSum(Column(Without(df, k), "clicks")))
             /\ total_impressions =
                  DecAdd(df[k].impressions,
                         SeriesSum(Column(Without(df, k), "impressions")))
             /\ avg_ctr = WeightedAverage(Without(df, k), "ctr")
        /\ IsNaN(df[k].position) =>
             avg_position = WeightedAverage(Without(df, k), "position")

\* x is present and x < n, x <= n, x > n, x >= n for an integer n.
Below(x, n) == x.e >= 0 /\ x.m < n * Pow10(x.e)
AtMost(x, n) == x.e >= 0 /\ x.m <= n * Pow10(x.e)
Above(x, n) == x.e >= 0 /\ x.m > n * Pow10(x.e)
AtLeast(x, n) == x.e >= 0 /\ x.m >= n * Pow10(x.e)

\* C9: each bucket is the filtered table restricted, in its order, to the
\* rows that meet the bucket's condition (so it holds no other row, and a
\* row is in every bucket whose condition it meets), and the filtered table
\* is still the result of the filters once the buckets are built.
C9_Buckets ==
  /\ pc \in {"top", "opportunities", "done"} =>
       /\ critical_drops =
            SelectSeq(df, LAMBDA r : Below(r.ctr, 1) /\ Above(r.impressions, 1000))
       /\ warnings =
            SelectSeq(df, LAMBDA r : Above(r.impressions, 1000) /\ Below(r.clicks, 10))
       /\ wins = SelectSeq(df, LAMBDA r : Above(r.ctr, 10) /\ Above(r.position, 10))
       /\ df = FilterRows(Coerced, min_impr, keyword_filter)
  /\ pc = "done" =>
       opportunities =
         SelectSeq(df, LAMBDA r : /\ AtLeast(r.position, 5)
                                  /\ AtMost(r.position, 15)
                                  /\ Below(r.ctr, 5))

\* C9's case: all four buckets are built and non-empty, one row is in
\* three of them, and a row of the table is in no opportunity.
C9_Witness ==
  /\ pc = "done"
  /\ wins # <<>>
  /\ \E k \in 1..Len(df) :
       /\ \E i \in 1..Len(critical_drops) : critical_drops[i] = df[k]
       /\ \E i \in 1..Len(warnings) : warnings[i] = df[k]
       /\ \E i \in 1..Len(opportunities) : opportunities[i] = df[k]
  /\ Len(opportunities) < Len(df)

\* C10, as stated: the top queries are in non-increasing order of clicks and
\* two of them with equal clicks are in the order they have in the table.
C10_AsStated ==
  pc \in {"opportunities", "done"} =>
    \A i, j \in 1..Len(top_queries) :
      i < j /\ ~IsNaN(top_queries[i].clicks) /\ ~IsNaN(top_queries[j].clicks) =>
        /\ DecGe(top_queries[i].clicks, top_queries[j].clicks)
        /\ top_queries[i].clicks = top_queries[j].clicks =>
             top_queries[i].idx < top_queries[j].idx

====
